---- MODULE Spec2Model ----
(***************************************************************************)
(* Model of the concurrent per-URL pipeline of url_scraper_md_formatter.py *)
(* (URLScraperApp.scrape_and_process, process_single_url, the rate-limited *)
(* content extraction, the Bedrock transformation with its retries) and of  *)
(* ProcessingStats.                                                         *)
(*                                                                         *)
(* The program runs on one asyncio event loop: the code between two        *)
(* suspension points (await of network I/O, of a sleep, of a semaphore     *)
(* that has no permit) runs atomically, so each action below is the code   *)
(* of one coroutine from one suspension point to the next.                 *)
(***************************************************************************)
EXTENDS Integers, Sequences, FiniteSets, TLC

\* ------------------------------------------------------------------ bounds
\* Number of base URLs the user may enter.
NumBases == 2
\* Largest number of URLs a deep crawl of one base URL returns.
MaxPages == 2
\* Largest number of entries of all_crawled_urls (workers of one run).
MaxTasks == 2
\* Largest endpoint count a detection reports.
MaxEndpoints == 1
\* Number of different kinds of failure the content-extraction service
\* shows in one run, and of different results the detection gives in one run.
MaxFaultKinds == 1
MaxDetectKinds == 1
\* Number of coroutines that call process_with_bedrock_rate_limited in the
\* specification of the Bedrock gate: one more than the gate has permits.
MaxCallers == 6
\* Largest number of URLs whose outcomes are recorded in one ProcessingStats
\* in the specification of ProcessingStats.
MaxStatUrls == 4
\* Pages given to detect_swagger_page: at most MaxTriggered checks are true
\* of a page and at most MaxRaising raise, and the HTML holds at most
\* MaxMatches references to specification files.
MaxTriggered == 2
MaxRaising == 1
MaxMatches == 2
\* At most MaxSpecFaultKinds different kinds of failure among the candidate
\* spec URLs of one page.
MaxSpecFaultKinds == 1
\* A specification document has at most MaxPaths paths with at most MaxKeys
\* keys each.
MaxPaths == 2
MaxKeys == 2
\* extract_content_via_jina_rate_limited is called at most MaxJinaCallers
\* times when its semaphore is exercised.
MaxJinaCallers == 21
\* _enhance_endpoints_with_html_examples is given at most MaxEnriched
\* endpoints with at most MaxExamples examples each, and at most MaxMined
\* mined examples of each kind.
MaxEnriched == 2
MaxExamples == 2
MaxMined == 4
\* The clock (time.time(), in seconds) is followed up to MaxTime and
\* advances in steps of TickStep seconds.
MaxTime == 120
TickStep == 30

\* ------------------------------------------------------- program constants
\* "if len(self.jina_rate_limiter) >= 20" / "current_time - t < 60"
RateLimit == 20
RateWindow == 60
\* Semaphore(20), Semaphore(5)
JinaPermits == 20
BedrockPermits == 5
\* process_single_url: max_retries = 2
max_retries == 2
\* process_with_bedrock: max_retries = 3
bedrock_max_retries == 3

VARIABLES
  now,                \* time.time()
  jina_rate_limiter,  \* self.jina_rate_limiter: list of admission times
  jina_semaphore,     \* free permits of self.jina_semaphore
  bedrock_semaphore,  \* free permits of self.bedrock_semaphore
  bedrock_client,     \* TRUE iff self.bedrock_client is not None
  urls,               \* the argument of scrape_and_process
  mainpc,             \* position of scrape_and_process
  crawl_idx,          \* the loop variable idx of its crawl loop, from 1
  all_crawled_urls,   \* list of [url, base_url]
  done_queue,         \* workers in the order asyncio.as_completed yields them
  completed,          \* the loop counter i / completed of scrape_and_process
  processing_stats,   \* base_url -> ProcessingStats
  processed_results,  \* self.processed_results (original_url of each result)
  pc,                 \* position of each process_single_url coroutine
  attempt,            \* its loop variable attempt
  battempt,           \* the loop variable attempt of its process_with_bedrock
  wake,               \* deadline of its asyncio.sleep(sleep_time)
  ret,                \* its return value: "result", "None", or "pending"
  swagger_result,     \* its local swagger_result
  jinaCalls,          \* calls of extract_content_via_jina_rate_limited it made
  detectCalls,        \* calls of enhanced_extract it made
  invokeCalls,        \* calls of bedrock_client.invoke_model it made
  faultsSeen,         \* kinds of failure the content-extraction calls showed
  detectsSeen,        \* results enhanced_extract gave
  scrape_button,      \* state of self.scrape_button
  stop_button,        \* state of self.stop_button
  stats_calls,        \* add_success / add_failure calls on one ProcessingStats
  page,               \* the (url, html_content) given to the scraper
  scraper_pc,         \* position of enhanced_extract
  detection,          \* what detect_swagger_page returned
  fetched,            \* the spec URLs extract_openapi_spec has requested
  extraction,         \* what enhanced_extract returned
  spec_data,          \* the argument of parse_openapi_spec
  api_data,           \* what parse_openapi_spec returned
  endpoint_list,      \* the list given to _enhance_endpoints_with_html_examples
  html_examples       \* what extract_examples_from_html mined ({} if no HTML)

rlVars == <<jina_rate_limiter, jina_semaphore>>
mainVars == <<urls, mainpc, crawl_idx, all_crawled_urls, completed,
              processed_results>>
callVars == <<jinaCalls, detectCalls, invokeCalls>>
envVars == <<faultsSeen, detectsSeen>>
uiVars == <<scrape_button, stop_button>>
enrichVars == <<endpoint_list, html_examples>>
scraperVars == <<page, scraper_pc, detection, fetched, extraction, spec_data,
                 api_data, enrichVars>>
sideVars == <<stats_calls, scraperVars>>
vars == <<now, jina_rate_limiter, jina_semaphore, bedrock_semaphore,
          bedrock_client, urls, mainpc, crawl_idx, all_crawled_urls, done_queue,
          completed, processing_stats, processed_results, pc, attempt,
          battempt, wake, ret, swagger_result, jinaCalls, detectCalls,
          invokeCalls, faultsSeen, detectsSeen, scrape_button, stop_button,
          stats_calls, page, scraper_pc, detection, fetched, extraction,
          spec_data, api_data, endpoint_list, html_examples>>

Workers == 1..MaxTasks

\* A URL is <<b, k>>: page k found under base URL b; <<b, 0>> is the base
\* URL itself.
Url(b, k) == <<b, k>>

Range(s) == {s[i] : i \in 1..Len(s)}

\* ---------------------------------------------------------- ProcessingStats
NewStats ==
  [total_urls_discovered |-> 0,
   successful_urls |-> <<>>,
   failed_urls |-> <<>>,
   processing_end_time |-> 0,
   swagger_pages_detected |-> 0,
   api_endpoints_extracted |-> 0,
   swagger_extraction_methods |-> <<>>,
   swagger_urls |-> <<>>]

\* failed_urls and swagger_extraction_methods are dicts: functions whose
\* domain is the set of keys (<<>> is the function with the empty domain).
DictSet(d, k, v) == [x \in DOMAIN d \cup {k} |-> IF x = k THEN v ELSE d[x]]

add_success(st, url) ==
  IF url \in Range(st.successful_urls)
  THEN st
  ELSE [st EXCEPT !.successful_urls = Append(@, url)]

\* The failure recorded in a dict that is emptied first.
add_failure_alone(st, url, reason) ==
  [st EXCEPT !.failed_urls = DictSet(<<>>, url, reason)]

add_failure(st, url, reason) ==
  [st EXCEPT !.failed_urls = DictSet(@, url, reason)]

add_swagger_detection(st, url, method, n) ==
  [st EXCEPT
     !.swagger_pages_detected = @ + 1,
     !.swagger_urls = Append(@, url),
     !.api_endpoints_extracted = @ + n,
     !.swagger_extraction_methods =
        DictSet(@, method, IF method \in DOMAIN @ THEN @[method] + 1 ELSE 1)]

\* "swagger_result = None"
NoSwaggerResult ==
  [is_swagger |-> FALSE, success |-> FALSE, method |-> "unset",
   endpoints |-> 0, error |-> FALSE]

\* ---------------------------------------------------- SwaggerEnhancedScraper
\* The detection checks of detect_swagger_page in their order, with their
\* weights in hundredths.
Checks ==
  << [name |-> "swagger-ui div/id", weight |-> 90],
     [name |-> "swagger-ui class", weight |-> 90],
     [name |-> "swagger.json link", weight |-> 95],
     [name |-> "openapi.json link", weight |-> 95],
     [name |-> "swagger in title", weight |-> 70],
     [name |-> "opblock class", weight |-> 80],
     [name |-> "swagger-ui bundle", weight |-> 80],
     [name |-> "try it out button", weight |-> 60],
     [name |-> "swagger text", weight |-> 50],
     [name |-> "openapi text", weight |-> 40],
     [name |-> "api documentation", weight |-> 30],
     [name |-> "api.html path", weight |-> 60],
     [name |-> "api docs path", weight |-> 50],
     [name |-> "rest api indicators", weight |-> 40],
     [name |-> "http methods", weight |-> 50],
     [name |-> "json response", weight |-> 30] >>

\* A URL of the site of the page is <<directory, file>>: <<"/v1",
\* "swagger.json">> is scheme://netloc/v1/swagger.json, and the directory
\* "//ext" stands for another site.
\*
\* A page is what detect_swagger_page depends on:
\*   hit, raising  the checks that are true of (url, html) and those that raise
\*   dir, leaf     the path of the URL: directory and last segment; leaf
\*                 "none" is the empty path, leaf "" a path ending in "/"
\*   matches       the matches of the three spec_patterns in the HTML, in the
\*                 order the loops find them, each a reference as written
\*                 in the page: relative, rooted ("/...") or absolute
\*   has_html      FALSE when html_content is None, and then
\*   fetch_ok      whether the page can be fetched
PageDirs == {"", "/v1", "/d"}
PageLeaves == {"none", "", "api.html", "docs", "docs/", "page"}
MatchKinds == {"relative", "rooted", "absolute"}
MatchFiles == {"swagger.json", "api-docs"}
Matches == [kind : MatchKinds, file : MatchFiles]

RECURSIVE SeqsUpTo(_, _)
SeqsUpTo(S, n) ==
  IF n = 0 THEN {<<>>}
  ELSE LET shorter == SeqsUpTo(S, n - 1)
       IN shorter \cup {Append(q, x) : q \in shorter, x \in S}

SetsUpTo(S, n) == {T \in SUBSET S : Cardinality(T) <= n}

\* Pages that differ in the checks, pages that differ in URL and references,
\* and pages given without their HTML.
ScorePages ==
  {[hit |-> h, raising |-> r, dir |-> "", leaf |-> "page", matches |-> <<>>,
    has_html |-> TRUE, fetch_ok |-> TRUE] :
     h \in SetsUpTo(1..Len(Checks), MaxTriggered),
     r \in SetsUpTo(1..Len(Checks), MaxRaising)}

LocatePages ==
  {[hit |-> {}, raising |-> {}, dir |-> d, leaf |-> l, matches |-> m,
    has_html |-> TRUE, fetch_ok |-> TRUE] :
     d \in PageDirs, l \in PageLeaves, m \in SeqsUpTo(Matches, MaxMatches)}

FetchPages ==
  {[hit |-> h, raising |-> {}, dir |-> "", leaf |-> "api.html",
    matches |-> <<>>, has_html |-> FALSE, fetch_ok |-> f] :
     h \in {{}, {1}}, f \in BOOLEAN}

Pages ==
  {pg \in ScorePages \cup LocatePages \cup FetchPages :
     /\ pg.hit \cap pg.raising = {}
     /\ pg.leaf = "none" => pg.dir = ""}

\* "for name, check_func, weight in checks": a check that is true adds its
\* name and its weight, one that raises is skipped.
RECURSIVE RunChecks(_, _, _)
RunChecks(pg, i, acc) ==
  IF i > Len(Checks) THEN acc
  ELSE IF i \in pg.raising THEN RunChecks(pg, i + 1, acc)
  ELSE IF i \in pg.hit
  THEN RunChecks(pg, i + 1,
                 [indicators |-> Append(acc.indicators, Checks[i].name),
                  confidence |-> acc.confidence + Checks[i].weight])
  ELSE RunChecks(pg, i + 1, acc)

\* urljoin(url, match)
urljoin(pg, m) ==
  CASE m.kind = "absolute" -> <<"//ext", m.file>>
    [] m.kind = "rooted" -> <<"", m.file>>
    [] OTHER -> <<pg.dir, m.file>>

\* "if x not in spec_urls: spec_urls.append(x)", without the test.
AppendAlways(spec_urls, x) == Append(spec_urls, x)

\* "if x not in spec_urls: spec_urls.append(x)"
AppendNew(spec_urls, x) ==
  IF x \in Range(spec_urls) THEN spec_urls ELSE Append(spec_urls, x)

RECURSIVE AppendAllNew(_, _, _)
AppendAllNew(spec_urls, xs, i) ==
  IF i > Len(xs) THEN spec_urls
  ELSE AppendAllNew(AppendNew(spec_urls, xs[i]), xs, i + 1)

\* base_url + pattern for the six base_patterns
BasePatterns ==
  << <<"", "swagger.json">>, <<"", "openapi.json">>, <<"", "api-docs">>,
     <<"/v1", "swagger.json">>, <<"/v2", "api-docs">>,
     <<"/swagger/v1", "swagger.json">> >>

\* The candidates of the "smart path-based patterns", in order.
PathPatterns(pg) ==
  IF pg.leaf = "none" THEN <<>>
  ELSE (IF pg.leaf = "api.html" THEN << <<pg.dir, "swagger.json">> >>
        ELSE IF pg.leaf \in {"docs", "docs/"}
        THEN << <<pg.dir, "swagger.json">> >>
        ELSE << <<pg.dir, "swagger.json">> >>)
       \o (IF pg.leaf = "api.html"
           THEN << <<pg.dir, "openapi.json">> >>
           ELSE <<>>)

\* The result of the early return when the page cannot be fetched: it has
\* the keys is_swagger and error only.
DetectionFetchError ==
  [is_swagger |-> FALSE, has_confidence |-> FALSE, confidence |-> 0,
   indicators |-> <<>>, spec_urls |-> <<>>, extraction_method |-> "absent"]

\* "confidence > 0.3" alone.
IsSwaggerByConfidence(confidence, spec_urls) == confidence > 30

\* "is_swagger = confidence > 0.3 or has_potential_specs"
IsSwagger(confidence, spec_urls) == confidence > 30 \/ Len(spec_urls) > 0

\* The sum as it is.
Unclamped(confidence) == confidence

\* "min(confidence, 1.0)"
Clamp(confidence) == IF confidence < 100 THEN confidence ELSE 100

detect_swagger_page(pg) ==
  IF ~pg.has_html /\ ~pg.fetch_ok THEN DetectionFetchError
  ELSE
    LET checked == RunChecks(pg, 1, [indicators |-> <<>>, confidence |-> 0])
        scanned == AppendAllNew(<<>>,
                     [i \in 1..Len(pg.matches) |-> urljoin(pg, pg.matches[i])],
                     1)
        with_base == AppendAllNew(scanned, BasePatterns, 1)
        spec_urls == AppendAllNew(with_base, PathPatterns(pg), 1)
        is_swagger == IsSwagger(checked.confidence, spec_urls)
    IN [is_swagger |-> is_swagger,
        has_confidence |-> TRUE,
        confidence |-> Clamp(checked.confidence),
        indicators |-> checked.indicators,
        spec_urls |-> spec_urls,
        extraction_method |->
          IF is_swagger
          THEN IF spec_urls # <<>> THEN "openapi_spec" ELSE "html_scraping"
          ELSE "standard_scraping"]

\* A specification document as parse_openapi_spec reads it: its "paths" as
\* the list of (path, keys below the path) in the order of the document, and
\* whether every value it reads with .get() or .items() is an object
\* (otherwise the call raises).
PathNames == {"/a", "/b"}
PathKeys == {"get", "GET", "Post", "head", "parameters", "x-internal"}

RECURSIVE DistinctSeqsUpTo(_, _)
DistinctSeqsUpTo(S, n) ==
  IF n = 0 THEN {<<>>}
  ELSE LET shorter == DistinctSeqsUpTo(S, n - 1)
       IN shorter \cup
            UNION {{Append(q, x) : x \in S \ Range(q)} : q \in shorter}

DocsUpTo(maxPaths, maxKeys) ==
  {[wellformed |-> TRUE,
    paths |-> [i \in 1..Len(ps) |-> [path |-> ps[i], keys |-> ks[i]]]] :
     ps \in DistinctSeqsUpTo(PathNames, maxPaths),
     ks \in [1..maxPaths -> DistinctSeqsUpTo(PathKeys, maxKeys)]}

MalformedDoc == [wellformed |-> FALSE, paths |-> <<>>]

SpecDocs == DocsUpTo(MaxPaths, MaxKeys)

\* The documents the candidate spec URLs of a page serve.
ServedDocs == DocsUpTo(1, 1) \cup {MalformedDoc}

\* str.lower() and str.upper() on the keys.
Lower(k) ==
  CASE k = "GET" -> "get"
    [] k = "Post" -> "post"
    [] OTHER -> k

Upper(k) ==
  CASE k \in {"get", "GET"} -> "GET"
    [] k = "Post" -> "POST"
    [] k = "head" -> "HEAD"
    [] k = "parameters" -> "PARAMETERS"
    [] OTHER -> "X-INTERNAL"

HttpMethods == {"get", "post", "put", "delete", "patch", "options", "head"}

\* "if method in [...]", without lower().
IsHttpMethodExact(method) == method \in HttpMethods

\* "if method.lower() in ['get', 'post', ...]"
IsHttpMethod(method) == Lower(method) \in HttpMethods

\* The two loops of parse_openapi_spec: the endpoints of the keys from the
\* j-th key of the i-th path on, appended to endpoints.
RECURSIVE ParseFrom(_, _, _, _)
ParseFrom(paths, i, j, endpoints) ==
  IF i > Len(paths) THEN endpoints
  ELSE IF j > Len(paths[i].keys) THEN ParseFrom(paths, i + 1, 1, endpoints)
  ELSE LET method == paths[i].keys[j]
       IN ParseFrom(paths, i, j + 1,
            IF IsHttpMethod(method)
            THEN Append(endpoints,
                        [method |-> Upper(method), path |-> paths[i].path])
            ELSE endpoints)

NoApiData == [endpoints |-> <<>>, total_endpoints |-> 0]

\* parse_openapi_spec for a document it can read.
parse_openapi_spec(doc) ==
  LET endpoints == ParseFrom(doc.paths, 1, 1, <<>>)
  IN [endpoints |-> endpoints, total_endpoints |-> Len(endpoints)]

\* --------------------------------------------------------- enhanced_extract
\* What the request for one candidate spec URL gives: an exception, a
\* status other than 200, a 200 whose body is not JSON, JSON without any of
\* the keys swagger, openapi, paths, or JSON with one of them.
SpecOutcomes == {"raises", "non200", "unparseable", "no_keys", "valid"}

\* A 200 with JSON is enough.
ValidatesAnyJson(o) == o \in {"no_keys", "valid"}

\* "if response.status_code == 200: ... if spec_data and any(key in
\* spec_data for key in ['swagger', 'openapi', 'paths'])"
Validates(o) == o = "valid"

NoExtraction ==
  [is_swagger |-> FALSE, success |-> FALSE, extraction_method |-> "none",
   total_endpoints |-> 0, has_api_data |-> FALSE, spec_source |-> <<"", "">>,
   error |-> FALSE]

\* The dict of the "except Exception" clause of enhanced_extract.
ExtractionError(is_swagger) ==
  [NoExtraction EXCEPT !.is_swagger = is_swagger, !.error = TRUE]

\* Step 1: the detection, and the return for a page that is not a Swagger
\* page.  The result of the early return of detect_swagger_page has no key
\* 'confidence', and reading it raises.
\* enhanced_extract going to the HTML fallback without the detection.
EnhancedExtractStartUndetected ==
  /\ scraper_pc = "start"
  /\ scraper_pc' = "fallback"
  /\ UNCHANGED <<page, detection, extraction, fetched, spec_data, api_data>>

EnhancedExtractStart ==
  /\ scraper_pc = "start"
  /\ LET d == detect_swagger_page(page)
     IN /\ detection' = d
        /\ IF ~d.is_swagger
           THEN /\ extraction' =
                     IF d.has_confidence THEN NoExtraction
                     ELSE ExtractionError(d.is_swagger)
                /\ scraper_pc' = "done"
           ELSE /\ extraction' = extraction
                /\ scraper_pc' =
                     IF d.spec_urls # <<>> THEN "resolving" ELSE "fallback"
  /\ UNCHANGED <<page, fetched, spec_data, api_data>>

\* Step 2, one pass of the loop of extract_openapi_spec: the next candidate
\* is requested.  One that validates ends the loop and is parsed; after the
\* last one the loop ends with None.
TrySpecUrl(o, doc) ==
  /\ scraper_pc = "resolving"
  /\ LET spec_url == detection.spec_urls[Len(fetched) + 1]
         tried == Append(fetched, [url |-> spec_url, outcome |-> o])
     IN /\ Cardinality({tried[i].outcome : i \in 1..Len(tried)} \ {"valid"})
             <= MaxSpecFaultKinds
        /\ fetched' = tried
        /\ IF Validates(o)
           THEN /\ scraper_pc' = "done"
                /\ extraction' =
                     IF doc.wellformed
                     THEN [is_swagger |-> TRUE, success |-> TRUE,
                           extraction_method |-> "openapi_spec",
                           total_endpoints |->
                             parse_openapi_spec(doc).total_endpoints,
                           has_api_data |-> TRUE,
                           spec_source |-> spec_url, error |-> FALSE]
                     ELSE ExtractionError(detection.is_swagger)
           ELSE /\ doc = MalformedDoc
                /\ extraction' = extraction
                /\ scraper_pc' =
                     IF Len(tried) = Len(detection.spec_urls)
                     THEN "fallback" ELSE "resolving"
  /\ UNCHANGED <<page, detection, spec_data, api_data>>

\* Step 3: scrape_swagger_html finds n endpoint blocks in the HTML.
HtmlFallback(n) ==
  /\ scraper_pc = "fallback"
  /\ scraper_pc' = "done"
  /\ extraction' =
       [is_swagger |-> TRUE, success |-> TRUE,
        extraction_method |-> "html_scraping", total_endpoints |-> n,
        has_api_data |-> TRUE, spec_source |-> <<"", "">>, error |-> FALSE]
  /\ UNCHANGED <<page, detection, fetched, spec_data, api_data>>

\* No page is given to the scraper.
\* ------------------------------------ _enhance_endpoints_with_html_examples
\* An example record is [type, example]; the examples parse_openapi_spec
\* took from the specification have type "response", and example values are
\* told apart by a number.  The parameters of an endpoint, which the
\* function may give an 'example' of their own, are left out.
Min(a, b) == IF a < b THEN a ELSE b

FirstN(list, n) == SubSeq(list, 1, Min(n, Len(list)))

Tagged(list, type) ==
  [k \in 1..Len(list) |-> [type |-> type, example |-> list[k]]]

\* extract_examples_from_html found nothing to mine from: no HTML content.
NoHtmlExamples ==
  [mined |-> FALSE, response_examples |-> <<>>, code_examples |-> <<>>]

HtmlExamples ==
  {NoHtmlExamples} \cup
  {[mined |-> TRUE,
    response_examples |-> [k \in 1..r |-> <<"json", k>>],
    code_examples |-> [k \in 1..c |-> <<"code", k>>]] :
     r \in 0..MaxMined, c \in 0..MaxMined}

EndpointInfos ==
  {[examples |-> Tagged([k \in 1..n |-> <<"spec", k>>], "response")] :
     n \in 0..MaxExamples}

\* One pass of the loop "for endpoint in endpoints".
EnhanceEndpoint(endpoint, h) ==
  LET with_responses ==
        IF endpoint.examples = <<>> /\ h.response_examples # <<>>
        THEN endpoint.examples \o
               Tagged(FirstN(h.response_examples, 3), "html_extracted")
        ELSE endpoint.examples
      with_code ==
        IF h.code_examples # <<>>
        THEN with_responses \o
               Tagged(FirstN(h.code_examples, 2), "code_example")
        ELSE with_responses
  IN [endpoint EXCEPT !.examples = with_code]

enhance_endpoints_with_html_examples(list, h) ==
  IF ~h.mined
  THEN list
  ELSE [k \in 1..Len(list) |-> EnhanceEndpoint(list[k], h)]

EnrichIdle == endpoint_list = <<>> /\ html_examples = NoHtmlExamples

ScraperIdle ==
  /\ EnrichIdle
  /\ page = [hit |-> {}, raising |-> {}, dir |-> "", leaf |-> "none",
             matches |-> <<>>, has_html |-> TRUE, fetch_ok |-> TRUE]
  /\ scraper_pc = "idle"
  /\ detection = DetectionFetchError
  /\ fetched = <<>>
  /\ extraction = NoExtraction
  /\ spec_data = MalformedDoc
  /\ api_data = NoApiData

\* No call on a separate ProcessingStats instance is under way and no page
\* is given to the scraper.
SideIdle == stats_calls = <<>> /\ ScraperIdle

\* ------------------------------------------------------------------- Init
\* The state in which scrape_and_process starts: the object as __init__ made
\* it, the URLs and the button states as start_scraping set them.
Init ==
  /\ now = 0
  /\ jina_rate_limiter = <<>>
  /\ jina_semaphore = JinaPermits
  /\ bedrock_semaphore = BedrockPermits
  /\ bedrock_client \in BOOLEAN
  /\ \E n \in 1..NumBases :
        /\ n <= MaxTasks
        /\ urls = [i \in 1..n |-> Url(i, 0)]
  /\ mainpc = "crawl"
  /\ crawl_idx = 1
  /\ all_crawled_urls = <<>>
  /\ done_queue = <<>>
  /\ completed = 0
  /\ processing_stats = [b \in Range(urls) |-> NewStats]
  /\ processed_results = <<>>
  /\ pc = [w \in Workers |-> "none"]
  /\ attempt = [w \in Workers |-> 0]
  /\ battempt = [w \in Workers |-> 0]
  /\ wake = [w \in Workers |-> 0]
  /\ ret = [w \in Workers |-> "pending"]
  /\ swagger_result = [w \in Workers |-> NoSwaggerResult]
  /\ jinaCalls = [w \in Workers |-> 0]
  /\ detectCalls = [w \in Workers |-> 0]
  /\ invokeCalls = [w \in Workers |-> 0]
  /\ faultsSeen = {}
  /\ detectsSeen = {}
  /\ scrape_button = "disabled"
  /\ stop_button = "normal"
  /\ SideIdle

\* --------------------------------------------------------------- the clock
Tick ==
  /\ now + TickStep <= MaxTime
  /\ now' = now + TickStep
  /\ UNCHANGED <<rlVars, bedrock_semaphore, bedrock_client, mainVars,
                 done_queue, processing_stats, pc, attempt, battempt, wake,
                 ret, swagger_result, callVars, envVars, uiVars, sideVars>>

\* ------------------------------- extract_content_via_jina_rate_limited
\* A prune that keeps the admissions of the last half window only.
PruneHalfWindow(list, current_time) ==
  SelectSeq(list, LAMBDA t : current_time - t < RateWindow \div 2)

\* [t for t in self.jina_rate_limiter if current_time - t < 60]
PruneWindow(list, current_time) ==
  SelectSeq(list, LAMBDA t : current_time - t < RateWindow)

\* "async with self.jina_semaphore" goes on although no permit is free.
JinaPermitFreeAlways == jina_semaphore >= 0

\* "async with self.jina_semaphore" goes on when a permit is free.
JinaPermitFree == jina_semaphore > 0

\* From "async with self.jina_semaphore" to the first suspension point: the
\* permit is taken, the window is pruned, and the caller either goes to
\* sleep (20 or more entries left) or appends its admission and starts the
\* request.
EnterRateLimited(w) ==
  /\ JinaPermitFree
  /\ jina_semaphore' = jina_semaphore - 1
  /\ LET current_time == now
         pruned == PruneWindow(jina_rate_limiter, current_time)
         sleep_time == RateWindow - (current_time - pruned[1])
     IN IF Len(pruned) >= RateLimit /\ sleep_time > 0
        THEN /\ jina_rate_limiter' = pruned
             /\ wake' = [wake EXCEPT ![w] = current_time + sleep_time]
             /\ pc' = [pc EXCEPT ![w] = "jina_sleep"]
        ELSE /\ jina_rate_limiter' = Append(pruned, current_time)
             /\ wake' = wake
             /\ pc' = [pc EXCEPT ![w] = "jina_call"]

\* After the sleep the call is given up: no admission, no request.
WakeRateLimitedRejects(w) ==
  /\ pc[w] = "jina_sleep"
  /\ now >= wake[w]
  /\ jina_semaphore' = jina_semaphore + 1
  /\ pc' = [pc EXCEPT ![w] = "none"]
  /\ UNCHANGED <<jina_rate_limiter, wake>>

\* After "await asyncio.sleep(sleep_time)": the window is pruned again and
\* the admission is appended, without a second look at its length.
WakeRateLimited(w) ==
  /\ pc[w] = "jina_sleep"
  /\ now >= wake[w]
  /\ LET current_time == now
     IN jina_rate_limiter' =
          Append(PruneWindow(jina_rate_limiter, current_time), current_time)
  /\ pc' = [pc EXCEPT ![w] = "jina_call"]
  /\ UNCHANGED <<jina_semaphore, wake>>

\* ---------------------------------------------- extract_content_via_jina
\* What the request to r.jina.ai does: a 200 with text, a 200 with an empty
\* body, a timeout, a connection error, a non-200 status, another error.
JinaOutcomes == {"content", "empty", "timeout", "connection", "http", "other"}

\* ClientResponseError is a subclass of ClientError; every class is an
\* Exception.
IsInstance(cls, of) ==
  \/ cls = of
  \/ of = "Exception"
  \/ cls = "ClientResponseError" /\ of = "ClientError"

\* The except clauses of extract_content_via_jina, in order, each raising a
\* new exception of the class on the right.
JinaRewraps ==
  << <<"TimeoutError", "TimeoutError">>,
     <<"ClientError", "ClientError">>,
     <<"Exception", "Exception">> >>

\* The first clause of a list of except clauses that catches cls.
RECURSIVE FirstHandler(_, _, _)
FirstHandler(clauses, cls, i) ==
  IF i > Len(clauses) THEN 0
  ELSE IF IsInstance(cls, clauses[i][1]) THEN i
  ELSE FirstHandler(clauses, cls, i + 1)

\* The class raised inside the try block of extract_content_via_jina.
JinaRaisedInside(o) ==
  CASE o = "timeout" -> "TimeoutError"
    [] o = "connection" -> "ClientError"
    [] o = "http" -> "ClientResponseError"
    [] OTHER -> "Exception"

\* The class extract_content_via_jina raises to its caller.
JinaRaises(o) ==
  JinaRewraps[FirstHandler(JinaRewraps, JinaRaisedInside(o), 1)][2]

\* The except clauses of process_single_url around the extraction call, in
\* order, with the FailureReason each records.
FetchHandlers ==
  << <<"TimeoutError", "timeout_error">>,
     <<"ClientError", "connection_error">>,
     <<"ClientResponseError", "http_error">>,
     <<"Exception", "content_extraction_error">> >>

\* The FailureReason process_single_url records for a failed extraction.
FetchFailureReason(o) ==
  IF o = "empty"
  THEN "content_extraction_error"
  ELSE FetchHandlers[FirstHandler(FetchHandlers, JinaRaises(o), 1)][2]

\* ------------------------------------------------------ process_single_url
UrlOf(w) == all_crawled_urls[w].url
\* Every worker given the base URL of the first discovered URL.
BaseOfFirst(w) == all_crawled_urls[1].base_url

BaseOf(w) == all_crawled_urls[w].base_url

\* "return ..." of process_single_url: the coroutine is done and
\* asyncio.as_completed yields it after those that finished before it.
\* A return whose completion as_completed never yields.
ReturnUnseen(w, value) ==
  /\ pc' = [pc EXCEPT ![w] = "done"]
  /\ ret' = [ret EXCEPT ![w] = value]
  /\ UNCHANGED done_queue

Return(w, value) ==
  /\ pc' = [pc EXCEPT ![w] = "done"]
  /\ ret' = [ret EXCEPT ![w] = value]
  /\ done_queue' = Append(done_queue, w)

\* The retry test off by one: "if attempt <= max_retries".
ShouldRetryOffByOne(a) == a <= max_retries

\* "if attempt < max_retries"
ShouldRetry(a) == a < max_retries

\* The end of a failed pass of the loop "for attempt in range(max_retries +
\* 1)", with st the statistics as the pass left them: sleep 2 seconds and
\* continue with the next attempt, or record the failure and return None.  A
\* "continue" in the last pass of the loop would leave the loop and reach
\* the final "return None".
RetryOrFail(w, reason, st) ==
  IF ShouldRetry(attempt[w])
  THEN IF attempt[w] + 1 < max_retries + 1
       THEN /\ attempt' = [attempt EXCEPT ![w] = @ + 1]
            /\ pc' = [pc EXCEPT ![w] = "pending"]
            /\ processing_stats' = st
            /\ UNCHANGED <<ret, done_queue>>
       ELSE /\ Return(w, "None")
            /\ processing_stats' = st
            /\ UNCHANGED attempt
  ELSE /\ processing_stats' =
            [st EXCEPT ![BaseOf(w)] = add_failure(@, UrlOf(w), reason)]
       /\ Return(w, "None")
       /\ UNCHANGED attempt

\* Step 1 of a pass: the call of extract_content_via_jina_rate_limited, up
\* to its first suspension point.  A worker is "pending" before its first
\* pass, during the 2 second sleep before a retry, and while it waits for a
\* permit of jina_semaphore.
FetchStart(w) ==
  /\ pc[w] = "pending"
  /\ EnterRateLimited(w)
  /\ jinaCalls' = [jinaCalls EXCEPT ![w] = @ + 1]
  /\ UNCHANGED <<now, bedrock_semaphore, bedrock_client, mainVars, done_queue,
                 processing_stats, attempt, battempt, ret, swagger_result,
                 detectCalls, invokeCalls, envVars, uiVars, sideVars>>

\* A worker the rate limiter put to sleep wakes up.
FetchWake(w) ==
  /\ WakeRateLimited(w)
  /\ UNCHANGED <<now, bedrock_semaphore, bedrock_client, mainVars, done_queue,
                 processing_stats, attempt, battempt, ret, swagger_result,
                 callVars, envVars, uiVars, sideVars>>

\* What enhanced_extract returns to process_single_url, which gives it the
\* content of the page: API data from a spec or from the HTML fallback, with
\* its number of endpoints; or, when anything inside it raised, success =
\* False (it catches every Exception itself, so nothing reaches the except
\* clause that process_single_url has around it).  It never returns "not a
\* Swagger page" for a page whose content is given: detect_swagger_page
\* always has the six base patterns in spec_urls, and then is_swagger holds.
DetectOutcomes ==
  {[is_swagger |-> TRUE, success |-> TRUE, method |-> m,
         endpoints |-> n, error |-> FALSE] :
          m \in {"openapi_spec", "html_scraping"}, n \in 0..MaxEndpoints}
  \cup {[is_swagger |-> b, success |-> FALSE, method |-> "none",
         endpoints |-> 0, error |-> TRUE] : b \in BOOLEAN}

\* Step 2 of a pass: the statistics after the detection gave d.
AfterDetection(w, d) ==
  IF d.is_swagger /\ d.success
  THEN [processing_stats EXCEPT
          ![BaseOf(w)] =
             add_swagger_detection(@, UrlOf(w), d.method, d.endpoints)]
  ELSE processing_stats

\* Step 3 of a pass, once process_with_bedrock_rate_limited holds a permit:
\* process_with_bedrock makes its first call of invoke_model, or returns
\* None at once when the client is not initialized (the permit is given
\* back).  st is the statistics as step 2 left them.
EnterBedrock(w, st) ==
  IF bedrock_client
  THEN /\ bedrock_semaphore' = bedrock_semaphore - 1
       /\ battempt' = [battempt EXCEPT ![w] = 0]
       /\ invokeCalls' = [invokeCalls EXCEPT ![w] = @ + 1]
       /\ pc' = [pc EXCEPT ![w] = "bedrock_call"]
       /\ processing_stats' = st
       /\ UNCHANGED <<attempt, ret, done_queue>>
  ELSE /\ RetryOrFail(w, "bedrock_error", st)
       /\ UNCHANGED <<bedrock_semaphore, battempt, invokeCalls>>

\* extract_content_via_jina returns or raises: the permit is given back and
\* process_single_url handles the failure, or goes on with the content: the
\* detection (which does not suspend: the scraper has no aiohttp session and
\* fetches synchronously) and the entry into the Bedrock step, which
\* suspends at once only if bedrock_semaphore has no permit.
FetchReturn(w, o, d) ==
  /\ pc[w] = "jina_call"
  /\ jina_semaphore' = jina_semaphore + 1
  /\ IF o = "content"
     THEN /\ Cardinality(detectsSeen \cup {d}) <= MaxDetectKinds
          /\ detectsSeen' = detectsSeen \cup {d}
          /\ faultsSeen' = faultsSeen
          /\ swagger_result' = [swagger_result EXCEPT ![w] = d]
          /\ detectCalls' = [detectCalls EXCEPT ![w] = @ + 1]
          /\ IF bedrock_semaphore > 0
             THEN EnterBedrock(w, AfterDetection(w, d))
             ELSE /\ pc' = [pc EXCEPT ![w] = "bedrock_wait"]
                  /\ processing_stats' = AfterDetection(w, d)
                  /\ UNCHANGED <<bedrock_semaphore, battempt, invokeCalls,
                                 attempt, ret, done_queue>>
     ELSE /\ Cardinality(faultsSeen \cup {o}) <= MaxFaultKinds
          /\ faultsSeen' = faultsSeen \cup {o}
          /\ d = CHOOSE x \in DetectOutcomes : TRUE
          /\ RetryOrFail(w, FetchFailureReason(o), processing_stats)
          /\ UNCHANGED <<bedrock_semaphore, battempt, swagger_result,
                         detectCalls, invokeCalls, detectsSeen>>
  /\ UNCHANGED <<now, jina_rate_limiter, bedrock_client, mainVars, wake,
                 jinaCalls, uiVars, sideVars>>

\* A worker that waited for a permit of bedrock_semaphore gets one.
TransformStart(w) ==
  /\ pc[w] = "bedrock_wait"
  /\ bedrock_semaphore > 0
  /\ EnterBedrock(w, processing_stats)
  /\ UNCHANGED <<now, rlVars, bedrock_client, mainVars, wake, swagger_result,
                 jinaCalls, detectCalls, envVars, uiVars, sideVars>>

\* What one call of invoke_model does: a response, or an exception that
\* process_with_bedrock classifies by its message.
InvokeOutcomes == {"ok", "connection_pool", "throttling", "other"}

\* A retry test that lets a failed last attempt sleep and try again.
BedrockShouldRetryAlways(b) == b < bedrock_max_retries

\* "attempt < max_retries - 1" of process_with_bedrock, the same in each of
\* its three error classes.
BedrockShouldRetry(b) == b < bedrock_max_retries - 1

\* invoke_model returns or raises.  A response ends process_single_url with
\* a result; a failure is followed by a backoff sleep and another call, and
\* after the last attempt process_with_bedrock returns None.
TransformReturn(w, o) ==
  /\ pc[w] = "bedrock_call"
  /\ IF o = "ok"
     THEN /\ bedrock_semaphore' = bedrock_semaphore + 1
          /\ Return(w, "result")
          /\ UNCHANGED <<attempt, processing_stats>>
     ELSE IF BedrockShouldRetry(battempt[w])
     THEN /\ pc' = [pc EXCEPT ![w] = "bedrock_sleep"]
          /\ UNCHANGED <<bedrock_semaphore, attempt, ret, done_queue,
                         processing_stats>>
     ELSE /\ bedrock_semaphore' = bedrock_semaphore + 1
          /\ RetryOrFail(w, "bedrock_error", processing_stats)
  /\ UNCHANGED <<now, rlVars, bedrock_client, mainVars, battempt, wake,
                 swagger_result, callVars, envVars, uiVars, sideVars>>

\* The backoff sleep of process_with_bedrock ends: the next attempt calls
\* invoke_model again.
TransformRetry(w) ==
  /\ pc[w] = "bedrock_sleep"
  /\ battempt' = [battempt EXCEPT ![w] = @ + 1]
  /\ invokeCalls' = [invokeCalls EXCEPT ![w] = @ + 1]
  /\ pc' = [pc EXCEPT ![w] = "bedrock_call"]
  /\ UNCHANGED <<now, rlVars, bedrock_semaphore, bedrock_client, mainVars,
                 done_queue, processing_stats, attempt, wake, ret,
                 swagger_result, jinaCalls, detectCalls, envVars, uiVars, sideVars>>

\* ------------------------------------------------------ scrape_and_process
\* What deep_crawl_url returns for base URL b: the n URLs the crawl found,
\* or, when the crawl failed, the base URL alone.
\* A failed crawl that yields no URL at all.
CrawledUrlsNoneOnFailure(b, n, failed) ==
  IF failed THEN <<>> ELSE [k \in 1..n |-> Url(b[1], k - 1)]

CrawledUrls(b, n, failed) ==
  IF failed THEN <<b>> ELSE [k \in 1..n |-> Url(b[1], k - 1)]

\* Step 1, one pass of the crawl loop.  After its last pass the tasks are
\* created (step 2) and scrape_and_process waits for the first completion.
Crawl(n, failed) ==
  /\ mainpc = "crawl"
  /\ LET idx == crawl_idx
         base_url == urls[idx]
         crawled == CrawledUrls(base_url, n, failed)
         all == all_crawled_urls \o
                  [k \in 1..Len(crawled) |->
                     [url |-> crawled[k], base_url |-> base_url]]
     IN /\ Len(all) + (Len(urls) - idx) <= MaxTasks
        /\ all_crawled_urls' = all
        /\ processing_stats' =
             [processing_stats EXCEPT
                ![base_url].total_urls_discovered = Len(crawled)]
        /\ crawl_idx' = idx + 1
        /\ IF idx = Len(urls)
           THEN /\ mainpc' = "process"
                /\ pc' = [w \in Workers |->
                            IF w <= Len(all) THEN "pending" ELSE pc[w]]
           ELSE UNCHANGED <<mainpc, pc>>
  /\ UNCHANGED <<now, rlVars, bedrock_semaphore, bedrock_client, urls,
                 done_queue, completed, processed_results, attempt, battempt,
                 wake, ret, swagger_result, callVars, envVars, uiVars, sideVars>>

\* url_info of every pass taken from the first entry of the list.
UrlInfoOfFirst(i) == all_crawled_urls[1]

\* "url_info = all_crawled_urls[i]", with i counted from 0
UrlInfoAt(i) == all_crawled_urls[i + 1]

\* One pass of the loop "for i, task in enumerate(asyncio.as_completed(
\* tasks))": the i-th coroutine to finish is awaited and its result is
\* recorded for all_crawled_urls[i]; when "await task" raises, the handler
\* of the loop records a failure for all_crawled_urls[i].  After the last
\* pass the statistics are finalized.
Consume(raised) ==
  /\ mainpc = "process"
  /\ completed < Len(done_queue)
  /\ LET i == completed
         result == IF raised THEN "raised" ELSE ret[done_queue[i + 1]]
         url_info == UrlInfoAt(i)
         recorded ==
           IF result = "result"
           THEN [processing_stats EXCEPT
                   ![url_info.base_url] = add_success(@, url_info.url)]
           ELSE [processing_stats EXCEPT
                   ![url_info.base_url] =
                      add_failure(@, url_info.url, "processing_error")]
     IN /\ processed_results' =
             IF result = "result"
             THEN Append(processed_results, UrlOf(done_queue[i + 1]))
             ELSE processed_results
        /\ completed' = completed + 1
        /\ IF completed + 1 = Len(all_crawled_urls)
           THEN /\ mainpc' = "finalized"
                /\ processing_stats' =
                     [b \in DOMAIN recorded |->
                        [recorded[b] EXCEPT !.processing_end_time = now]]
                /\ scrape_button' = "normal"
                /\ stop_button' = "disabled"
           ELSE /\ mainpc' = mainpc
                /\ processing_stats' = recorded
                /\ UNCHANGED uiVars
  /\ UNCHANGED <<now, rlVars, bedrock_semaphore, bedrock_client, urls,
                 crawl_idx, all_crawled_urls, done_queue, pc, attempt,
                 battempt, wake, ret, swagger_result, callVars, envVars,
                 sideVars>>

\* ------------------------------------------------------------ stop_scraping
\* The handler of the Stop button, which the user can press while the button
\* is enabled, that is from start_scraping to the end of the run.  It sets the
\* states of the two buttons (and two labels); it sets no flag and cancels no
\* task, and neither scrape_and_process nor process_single_url reads the
\* state of a button.
stop_scraping ==
  /\ stop_button = "normal"
  /\ scrape_button' = "normal"
  /\ stop_button' = "disabled"
  /\ UNCHANGED <<now, rlVars, bedrock_semaphore, bedrock_client, mainVars,
                 done_queue, processing_stats, pc, attempt, battempt, wake,
                 ret, swagger_result, callVars, envVars, sideVars>>

\* --------------------------------------------------------- specification
\* One run of scrape_and_process.  A run starts at most 3 * MaxTasks
\* extraction calls and holds at most MaxTasks permits, fewer than the rate
\* limit and than the permits of either semaphore, so FetchWake and
\* TransformStart are never enabled in it and the clock reading does not
\* matter to it: they are left to the specifications of the limiter.
Next ==
  \/ \E n \in 1..MaxPages, failed \in BOOLEAN : Crawl(n, failed)
  \/ \E w \in Workers : FetchStart(w)
  \/ \E w \in Workers, o \in JinaOutcomes, d \in DetectOutcomes :
        FetchReturn(w, o, d)
  \/ \E w \in Workers, o \in InvokeOutcomes : TransformReturn(w, o)
  \/ \E w \in Workers : TransformRetry(w)
  \/ Consume(FALSE)

Spec == Init /\ [][Next]_vars

\* The same run in which, besides, "await task" may raise in the loop of
\* scrape_and_process.  process_single_url catches every Exception itself,
\* so this is more than its code can do; it exercises the handler of the
\* loop.
NextRaising ==
  \/ Next
  \/ Consume(TRUE)

SpecRaising == Init /\ [][NextRaising]_vars

\* The same run under the scheduling of the event loop: a coroutine that can
\* take a step is eventually run, and every awaited call (the crawl, the
\* extraction, the model call, the sleeps) eventually returns or raises.
InitFair == Init /\ Len(urls) = 1

SpecFair == InitFair /\ [][Next]_vars /\ WF_vars(Next)

\* A run of scrape_and_process for one base URL during which the user may
\* press Stop.
InitStop == Init /\ bedrock_client /\ Len(urls) = 1

NextStop ==
  \/ Next
  \/ stop_scraping

SpecStop == InitStop /\ [][NextStop]_vars

\* ------------------------------------------ specification of the limiter
\* extract_content_via_jina_rate_limited under any arrival pattern: each of
\* the MaxTasks callers is a coroutine that calls it whenever it is not
\* inside it (the passes of one worker, and the workers of later URLs), and
\* the request it makes takes any time.
CallRateLimited(w) ==
  /\ pc[w] = "none"
  /\ EnterRateLimited(w)
  /\ UNCHANGED <<now, bedrock_semaphore, bedrock_client, mainVars, done_queue,
                 processing_stats, attempt, battempt, ret, swagger_result,
                 callVars, envVars, uiVars, sideVars>>

LeaveRateLimited(w) ==
  /\ pc[w] = "jina_call"
  /\ jina_semaphore' = jina_semaphore + 1
  /\ pc' = [pc EXCEPT ![w] = "none"]
  /\ UNCHANGED <<now, jina_rate_limiter, bedrock_semaphore, bedrock_client,
                 mainVars, done_queue, processing_stats, attempt, battempt,
                 wake, ret, swagger_result, callVars, envVars, uiVars, sideVars>>

InitRL == Init /\ bedrock_client /\ Len(urls) = 1

NextRL ==
  \/ Tick
  \/ \E w \in Workers : CallRateLimited(w)
  \/ \E w \in Workers : FetchWake(w)
  \/ \E w \in Workers : LeaveRateLimited(w)

SpecRL == InitRL /\ [][NextRL]_vars

\* The limiter with the scheduling of the event loop: time passes, and a
\* coroutine whose asyncio.sleep is over is run.  The clock of the model
\* stops at ClockEnd, so the calls are those made early enough for the
\* longest sleep (RateWindow seconds) to end by then.
ClockEnd == (MaxTime \div TickStep) * TickStep

CallRateLimitedInTime(w) ==
  /\ now + RateWindow <= ClockEnd
  /\ CallRateLimited(w)

NextRLLive ==
  \/ Tick
  \/ \E w \in Workers : CallRateLimitedInTime(w)
  \/ \E w \in Workers : FetchWake(w)
  \/ \E w \in Workers : LeaveRateLimited(w)

SpecRLLive ==
  /\ InitRL
  /\ [][NextRLLive]_vars
  /\ WF_vars(Tick)
  /\ \A w \in Workers : WF_vars(FetchWake(w))

\* ---------------------------------------- specification of the Jina gate
\* MaxJinaCallers calls of extract_content_via_jina_rate_limited, by
\* whichever worker and in whichever pass: call c is made after call c - 1
\* was made, a call waits while no permit is free, and the requests
\* complete in the order in which they were started, each returning or
\* raising any of the exception kinds.  pc and wake are those of the calls.
JinaCallers == 1..MaxJinaCallers

InRequest == {c \in JinaCallers : pc[c] = "jina_call"}

JinaGateCall(c) ==
  /\ IF c = 1 THEN TRUE ELSE pc[c - 1] # "none"
  /\ CallRateLimited(c)

\* extract_content_via_jina returns, or raises and the exception is raised
\* again: either way the "async with" block is left and the permit is given
\* back.
JinaGateLeave(c, o) ==
  /\ pc[c] = "jina_call"
  /\ \A x \in InRequest : c <= x
  /\ jina_semaphore' = jina_semaphore + 1
  /\ pc' = [pc EXCEPT ![c] = "done"]
  /\ UNCHANGED <<now, jina_rate_limiter, bedrock_semaphore, bedrock_client,
                 mainVars, done_queue, processing_stats, attempt, battempt,
                 wake, ret, swagger_result, callVars, envVars, uiVars, sideVars>>

InitJinaGate ==
  /\ now = 0
  /\ jina_rate_limiter = <<>>
  /\ jina_semaphore = JinaPermits
  /\ bedrock_semaphore = BedrockPermits
  /\ bedrock_client = TRUE
  /\ urls = <<Url(1, 0)>>
  /\ mainpc = "crawl"
  /\ crawl_idx = 1
  /\ all_crawled_urls = <<>>
  /\ done_queue = <<>>
  /\ completed = 0
  /\ processing_stats = [b \in Range(urls) |-> NewStats]
  /\ processed_results = <<>>
  /\ pc = [c \in JinaCallers |-> "none"]
  /\ attempt = [c \in JinaCallers |-> 0]
  /\ battempt = [c \in JinaCallers |-> 0]
  /\ wake = [c \in JinaCallers |-> 0]
  /\ ret = [c \in JinaCallers |-> "pending"]
  /\ swagger_result = [c \in JinaCallers |-> NoSwaggerResult]
  /\ jinaCalls = [c \in JinaCallers |-> 0]
  /\ detectCalls = [c \in JinaCallers |-> 0]
  /\ invokeCalls = [c \in JinaCallers |-> 0]
  /\ faultsSeen = {}
  /\ detectsSeen = {}
  /\ scrape_button = "disabled"
  /\ stop_button = "normal"
  /\ SideIdle

NextJinaGate ==
  \/ Tick
  \/ \E c \in JinaCallers : JinaGateCall(c)
  \/ \E c \in JinaCallers : FetchWake(c)
  \/ \E c \in JinaCallers, o \in JinaOutcomes : JinaGateLeave(c, o)

SpecJinaGate == InitJinaGate /\ [][NextJinaGate]_vars

\* ------------------------------------- specification of the Bedrock gate
\* process_with_bedrock_rate_limited called once by each of MaxCallers
\* coroutines, in any interleaving.  pc, battempt and invokeCalls are those
\* of the callers.
Callers == 1..MaxCallers

\* "async with self.bedrock_semaphore" does not suspend when a permit is
\* free.
BedrockPermitFreeAlways == bedrock_semaphore >= 0

BedrockPermitFree == bedrock_semaphore > 0

\* Inside "async with self.bedrock_semaphore", up to the first suspension
\* point of process_with_bedrock: it returns None at once when the client is
\* not initialized, an exception raised before its retry loop (building the
\* prompt) leaves the "async with" block, and otherwise invoke_model is
\* called for the first time.  Leaving the block gives the permit back.
GateEnter(c, raises) ==
  IF ~bedrock_client \/ raises
  THEN /\ pc' = [pc EXCEPT ![c] = "done"]
       /\ UNCHANGED <<bedrock_semaphore, battempt, invokeCalls>>
  ELSE /\ bedrock_semaphore' = bedrock_semaphore - 1
       /\ battempt' = [battempt EXCEPT ![c] = 0]
       /\ invokeCalls' = [invokeCalls EXCEPT ![c] = @ + 1]
       /\ pc' = [pc EXCEPT ![c] = "bedrock_call"]

CallBedrockLimited(c, raises) ==
  /\ pc[c] = "none"
  /\ IF BedrockPermitFree
     THEN GateEnter(c, raises)
     ELSE /\ ~raises
          /\ pc' = [pc EXCEPT ![c] = "bedrock_wait"]
          /\ UNCHANGED <<bedrock_semaphore, battempt, invokeCalls>>
  /\ UNCHANGED <<now, rlVars, bedrock_client, mainVars, done_queue,
                 processing_stats, attempt, wake, ret, swagger_result,
                 jinaCalls, detectCalls, envVars, uiVars, sideVars>>

\* A caller that waited for a permit gets one.
GateGranted(c, raises) ==
  /\ pc[c] = "bedrock_wait"
  /\ BedrockPermitFree
  /\ GateEnter(c, raises)
  /\ UNCHANGED <<now, rlVars, bedrock_client, mainVars, done_queue,
                 processing_stats, attempt, wake, ret, swagger_result,
                 jinaCalls, detectCalls, envVars, uiVars, sideVars>>

\* invoke_model returns or raises: process_with_bedrock returns the text,
\* sleeps before its next attempt, or returns None after its last one.
GateReturn(c, o) ==
  /\ pc[c] = "bedrock_call"
  /\ IF o # "ok" /\ BedrockShouldRetry(battempt[c])
     THEN /\ pc' = [pc EXCEPT ![c] = "bedrock_sleep"]
          /\ UNCHANGED bedrock_semaphore
     ELSE /\ pc' = [pc EXCEPT ![c] = "done"]
          /\ bedrock_semaphore' = bedrock_semaphore + 1
  /\ UNCHANGED <<now, rlVars, bedrock_client, mainVars, done_queue,
                 processing_stats, attempt, battempt, wake, ret,
                 swagger_result, callVars, envVars, uiVars, sideVars>>

InitGate ==
  /\ now = 0
  /\ jina_rate_limiter = <<>>
  /\ jina_semaphore = JinaPermits
  /\ bedrock_semaphore = BedrockPermits
  /\ bedrock_client \in BOOLEAN
  /\ urls = <<Url(1, 0)>>
  /\ mainpc = "crawl"
  /\ crawl_idx = 1
  /\ all_crawled_urls = <<>>
  /\ done_queue = <<>>
  /\ completed = 0
  /\ processing_stats = [b \in Range(urls) |-> NewStats]
  /\ processed_results = <<>>
  /\ pc = [c \in Callers |-> "none"]
  /\ attempt = [c \in Callers |-> 0]
  /\ battempt = [c \in Callers |-> 0]
  /\ wake = [c \in Callers |-> 0]
  /\ ret = [c \in Callers |-> "pending"]
  /\ swagger_result = [c \in Callers |-> NoSwaggerResult]
  /\ jinaCalls = [c \in Callers |-> 0]
  /\ detectCalls = [c \in Callers |-> 0]
  /\ invokeCalls = [c \in Callers |-> 0]
  /\ faultsSeen = {}
  /\ detectsSeen = {}
  /\ scrape_button = "disabled"
  /\ stop_button = "normal"
  /\ SideIdle

NextGate ==
  \/ \E c \in Callers, raises \in BOOLEAN : CallBedrockLimited(c, raises)
  \/ \E c \in Callers, raises \in BOOLEAN : GateGranted(c, raises)
  \/ \E c \in Callers, o \in InvokeOutcomes : GateReturn(c, o)
  \/ \E c \in Callers : TransformRetry(c)

SpecGate == InitGate /\ [][NextGate]_vars

\* ------------------------------------ specification of ProcessingStats
\* One ProcessingStats instance (that of base URL 1) on which the workers
\* of MaxStatUrls or fewer pairwise distinct URLs call add_success or
\* add_failure once each, in any order.  The workers are coroutines of one
\* event loop and neither method suspends, so each call is one step.
\* stats_calls maps each URL to the call its worker makes and to whether the
\* call has been made.
StatUrls == {Url(1, k) : k \in 1..MaxStatUrls}

StatReasons == {"timeout_error", "processing_error"}

InitStats ==
  /\ now = 0
  /\ jina_rate_limiter = <<>>
  /\ jina_semaphore = JinaPermits
  /\ bedrock_semaphore = BedrockPermits
  /\ bedrock_client = TRUE
  /\ urls = <<Url(1, 0)>>
  /\ mainpc = "process"
  /\ crawl_idx = 2
  /\ all_crawled_urls = <<>>
  /\ done_queue = <<>>
  /\ completed = 0
  /\ processing_stats = [b \in Range(urls) |-> NewStats]
  /\ processed_results = <<>>
  /\ pc = [w \in Workers |-> "none"]
  /\ attempt = [w \in Workers |-> 0]
  /\ battempt = [w \in Workers |-> 0]
  /\ wake = [w \in Workers |-> 0]
  /\ ret = [w \in Workers |-> "pending"]
  /\ swagger_result = [w \in Workers |-> NoSwaggerResult]
  /\ jinaCalls = [w \in Workers |-> 0]
  /\ detectCalls = [w \in Workers |-> 0]
  /\ invokeCalls = [w \in Workers |-> 0]
  /\ faultsSeen = {}
  /\ detectsSeen = {}
  /\ scrape_button = "disabled"
  /\ stop_button = "normal"
  /\ ScraperIdle
  /\ \E us \in SUBSET StatUrls :
        stats_calls \in [us -> [op : {"add_success", "add_failure"},
                                made : {FALSE}]]

StatsCall(u, reason) ==
  /\ u \in DOMAIN stats_calls
  /\ ~stats_calls[u].made
  /\ stats_calls' = [stats_calls EXCEPT ![u].made = TRUE]
  /\ processing_stats' =
       [processing_stats EXCEPT
          ![Url(1, 0)] =
             IF stats_calls[u].op = "add_success"
             THEN add_success(@, u)
             ELSE add_failure(@, u, reason)]

StatsAddSuccess(u) ==
  /\ u \in DOMAIN stats_calls
  /\ stats_calls[u].op = "add_success"
  /\ StatsCall(u, "none")
  /\ UNCHANGED <<now, rlVars, bedrock_semaphore, bedrock_client, mainVars,
                 done_queue, pc, attempt, battempt, wake, ret, swagger_result,
                 callVars, envVars, uiVars, scraperVars>>

StatsAddFailure(u, reason) ==
  /\ u \in DOMAIN stats_calls
  /\ stats_calls[u].op = "add_failure"
  /\ StatsCall(u, reason)
  /\ UNCHANGED <<now, rlVars, bedrock_semaphore, bedrock_client, mainVars,
                 done_queue, pc, attempt, battempt, wake, ret, swagger_result,
                 callVars, envVars, uiVars, scraperVars>>

NextStats ==
  \/ \E u \in StatUrls : StatsAddSuccess(u)
  \/ \E u \in StatUrls, reason \in StatReasons : StatsAddFailure(u, reason)

SpecStats == InitStats /\ [][NextStats]_vars

\* -------------------------------------------- specification of the scraper
\* The state of a run in which only the scraper acts.
PipelineIdle ==
  /\ now = 0
  /\ jina_rate_limiter = <<>>
  /\ jina_semaphore = JinaPermits
  /\ bedrock_semaphore = BedrockPermits
  /\ bedrock_client = TRUE
  /\ urls = <<Url(1, 0)>>
  /\ mainpc = "process"
  /\ crawl_idx = 2
  /\ all_crawled_urls = <<>>
  /\ done_queue = <<>>
  /\ completed = 0
  /\ processing_stats = [b \in Range(urls) |-> NewStats]
  /\ processed_results = <<>>
  /\ pc = [w \in Workers |-> "none"]
  /\ attempt = [w \in Workers |-> 0]
  /\ battempt = [w \in Workers |-> 0]
  /\ wake = [w \in Workers |-> 0]
  /\ ret = [w \in Workers |-> "pending"]
  /\ swagger_result = [w \in Workers |-> NoSwaggerResult]
  /\ jinaCalls = [w \in Workers |-> 0]
  /\ detectCalls = [w \in Workers |-> 0]
  /\ invokeCalls = [w \in Workers |-> 0]
  /\ faultsSeen = {}
  /\ detectsSeen = {}
  /\ scrape_button = "disabled"
  /\ stop_button = "normal"
  /\ stats_calls = <<>>

pipelineVars ==
  <<now, rlVars, bedrock_semaphore, bedrock_client, mainVars, done_queue,
    processing_stats, pc, attempt, battempt, wake, ret, swagger_result,
    callVars, envVars, uiVars, stats_calls>>

\* enhanced_extract(url, html_content) for any page.
InitScraper ==
  /\ PipelineIdle
  /\ page \in Pages
  /\ scraper_pc = "start"
  /\ detection = DetectionFetchError
  /\ fetched = <<>>
  /\ extraction = NoExtraction
  /\ spec_data = MalformedDoc
  /\ api_data = NoApiData
  /\ EnrichIdle

NextScraper ==
  /\ \/ EnhancedExtractStart
     \/ \E o \in SpecOutcomes, doc \in ServedDocs : TrySpecUrl(o, doc)
     \/ \E n \in 0..MaxEndpoints : HtmlFallback(n)
  /\ UNCHANGED <<pipelineVars, enrichVars>>

SpecScraper == InitScraper /\ [][NextScraper]_vars

\* parse_openapi_spec(spec_data) for any document.
InitParse ==
  /\ PipelineIdle
  /\ page \in FetchPages /\ page.hit = {} /\ page.fetch_ok
  /\ scraper_pc = "parse"
  /\ detection = DetectionFetchError
  /\ fetched = <<>>
  /\ extraction = NoExtraction
  /\ spec_data \in SpecDocs \cup {MalformedDoc}
  /\ api_data = NoApiData
  /\ EnrichIdle

ParseSpec ==
  /\ scraper_pc = "parse"
  /\ IF spec_data.wellformed
     THEN /\ api_data' = parse_openapi_spec(spec_data)
          /\ scraper_pc' = "done"
     ELSE /\ api_data' = api_data
          /\ scraper_pc' = "raised"
  /\ UNCHANGED <<page, detection, fetched, extraction, spec_data>>

NextParse == ParseSpec /\ UNCHANGED <<pipelineVars, enrichVars>>

SpecParse == InitParse /\ [][NextParse]_vars

\* The stages of one URL: the passes of process_single_url in a run for one
\* base URL, and the stages of enhanced_extract, which a pass calls for its
\* detection step, for any page.
InitStages == InitFair \/ InitScraper

NextStages == Next \/ NextScraper

SpecStages == InitStages /\ [][NextStages]_vars

\* _enhance_endpoints_with_html_examples(endpoints, html_examples) for any
\* list of endpoints and any mined examples.
InitEnrich ==
  /\ PipelineIdle
  /\ page = [hit |-> {}, raising |-> {}, dir |-> "", leaf |-> "none",
             matches |-> <<>>, has_html |-> TRUE, fetch_ok |-> TRUE]
  /\ scraper_pc = "enhance"
  /\ detection = DetectionFetchError
  /\ fetched = <<>>
  /\ extraction = NoExtraction
  /\ spec_data = MalformedDoc
  /\ api_data = NoApiData
  /\ endpoint_list \in SeqsUpTo(EndpointInfos, MaxEnriched)
  /\ html_examples \in HtmlExamples

Enhance ==
  /\ scraper_pc = "enhance"
  /\ endpoint_list' =
       enhance_endpoints_with_html_examples(endpoint_list, html_examples)
  /\ scraper_pc' = "done"
  /\ UNCHANGED <<page, detection, fetched, extraction, spec_data, api_data,
                 html_examples>>

NextEnrich == Enhance /\ UNCHANGED pipelineVars

SpecEnrich == InitEnrich /\ [][NextEnrich]_vars

\* ------------------------------------------------------------------ claims
\* The admissions recorded in jina_rate_limiter that lie in the 60 seconds
\* before now.  An entry leaves the list only when it is 60 seconds old, so
\* these are all the admissions of the trailing window.
AdmittedInWindow ==
  Cardinality({i \in 1..Len(jina_rate_limiter) :
                 now - jina_rate_limiter[i] < RateWindow})

\* C1: at every moment, at most 20 admissions (timestamps appended to
\* jina_rate_limiter) lie in the trailing 60-second window, for every
\* arrival pattern of the callers, also when several of them slept and woke
\* together.
C1_AtMostLimitInWindow == AdmittedInWindow <= 20

\* The workers of the run: one per entry of all_crawled_urls.
Tasks == 1..Len(all_crawled_urls)

Successful(b) == Range(processing_stats[b].successful_urls)
Failed(b) == DOMAIN processing_stats[b].failed_urls
FailureReasonOf(w) == processing_stats[BaseOf(w)].failed_urls[UrlOf(w)]

\* Every content-extraction call of worker w so far has failed.
NoFetchSucceeded(w) == detectCalls[w] = 0

\* C2: when the run is over, a URL is in successful_urls of its base URL's
\* statistics if and only if its own process_single_url worker returned a
\* result, whatever the order in which the workers completed.
C2_SuccessIffOwnResult ==
  mainpc = "finalized" =>
    \A w \in Tasks : (UrlOf(w) \in Successful(BaseOf(w))) <=> (ret[w] = "result")

\* C3: in every state, no URL is both in successful_urls and a key of
\* failed_urls of the same ProcessingStats.
C3_SuccessFailureDisjoint ==
  \A b \in DOMAIN processing_stats : Successful(b) \cap Failed(b) = {}

\* C4: when the run is over, a URL whose 3 content-extraction attempts all
\* timed out is a key of failed_urls with reason timeout_error, and every
\* worker of the run has reached its own end.
C4_TimeoutReasonKept ==
  mainpc = "finalized" =>
    /\ \A w \in Tasks : pc[w] = "done"
    /\ \A w \in Tasks :
         (faultsSeen = {"timeout"} /\ NoFetchSucceeded(w) /\ jinaCalls[w] = 3) =>
           /\ UrlOf(w) \in Failed(BaseOf(w))
           /\ FailureReasonOf(w) = "timeout_error"

\* C5: once a content fetch of a URL has succeeded (and its detection has
\* run), the worker never calls the content extraction again and never runs
\* the detection a second time.
C5_StagesEnteredOnce ==
  \A w \in Tasks :
    /\ detectCalls[w] <= 1
    /\ detectCalls[w] >= 1 => pc[w] \notin {"jina_call", "jina_sleep"}

\* C6: a worker whose content-extraction calls all fail never makes more
\* than 3 of them, and when it ends it has made exactly 3, has returned None
\* and its URL is a key of failed_urls.
C6_ExactlyThreeFetchAttempts ==
  \A w \in Tasks :
    NoFetchSucceeded(w) =>
      /\ jinaCalls[w] <= 3
      /\ pc[w] = "done" =>
           /\ jinaCalls[w] = 3
           /\ ret[w] = "None"
           /\ UrlOf(w) \in Failed(BaseOf(w))

\* A worker has ended after three failed content-extraction calls.
C6_Witness ==
  \E w \in Tasks :
    /\ pc[w] = "done"
    /\ NoFetchSucceeded(w)
    /\ jinaCalls[w] = 3
    /\ FailureReasonOf(w) \in {"timeout_error", "connection_error",
                               "content_extraction_error"}

\* C7: a worker whose content fetches all succeeded and whose calls of
\* invoke_model all failed has called invoke_model exactly 3 times when it
\* ends, and its URL is recorded with reason bedrock_error.
C7_ThreeInvocations ==
  \A w \in Tasks :
    ( /\ pc[w] = "done"
      /\ ret[w] = "None"
      /\ invokeCalls[w] > 0
      /\ detectCalls[w] = jinaCalls[w] ) =>
        /\ invokeCalls[w] = 3
        /\ UrlOf(w) \in Failed(BaseOf(w))
        /\ FailureReasonOf(w) = "bedrock_error"

\* C8: the Swagger counters are updated at most once for a URL and only for
\* a URL that ends in success, so that when the run is over
\* swagger_pages_detected is at most the number of URLs whose worker returned
\* a result.
C8_SwaggerCountedOncePerSuccess ==
  \A b \in DOMAIN processing_stats :
    LET st == processing_stats[b]
        mine == {w \in Tasks : BaseOf(w) = b}
    IN /\ \A i, j \in 1..Len(st.swagger_urls) :
            st.swagger_urls[i] = st.swagger_urls[j] => i = j
       /\ mainpc = "finalized" =>
            /\ \A w \in mine :
                 UrlOf(w) \in Range(st.swagger_urls) => ret[w] = "result"
            /\ st.swagger_pages_detected
                 <= Cardinality({w \in mine : ret[w] = "result"})

\* C9: the failure process_single_url records for a URL whose attempts all
\* ended the same way keeps the kind of the error: http_error for non-200
\* statuses, connection_error for connection errors, timeout_error for
\* timeouts.  (Before the first completion is consumed, every entry of
\* failed_urls is one that process_single_url recorded.)
C9_ErrorKindPreserved ==
  \A w \in Tasks :
    (pc[w] = "done" /\ NoFetchSucceeded(w) /\ completed = 0) =>
      /\ faultsSeen = {"http"} => FailureReasonOf(w) = "http_error"
      /\ faultsSeen = {"connection"} => FailureReasonOf(w) = "connection_error"
      /\ faultsSeen = {"timeout"} => FailureReasonOf(w) = "timeout_error"

\* C10: when the run is over, a URL whose detection failed (enhanced_extract
\* returned success = False) and whose transformation then succeeded is in
\* successful_urls and is not a key of failed_urls.
C10_DetectionFailureNotRecorded ==
  mainpc = "finalized" =>
    \A w \in Tasks :
      (swagger_result[w].error /\ ret[w] = "result") =>
        /\ UrlOf(w) \in Successful(BaseOf(w))
        /\ UrlOf(w) \notin Failed(BaseOf(w))

\* C11: after the user has requested a stop during a run (stop_scraping has
\* run, the Stop button is disabled, the run is not over), no worker that
\* has not yet started its content fetch starts it.
C11_NoFetchAfterStop ==
  [][\A w \in Workers :
        (stop_button = "disabled" /\ mainpc # "finalized" /\ jinaCalls[w] = 0)
          => jinaCalls'[w] = 0]_vars

\* The coroutines inside process_with_bedrock: between its first call of
\* invoke_model and its return.
InBedrock == {c \in DOMAIN pc : pc[c] \in {"bedrock_call", "bedrock_sleep"}}

\* C12: at every moment at most 5 calls of process_with_bedrock are in
\* progress, and the free permits of bedrock_semaphore are 5 minus the calls
\* in progress, so every exit path (result, None, exception) has given its
\* permit back and 5 permits are free when no call is in flight.
C12_AtMostFiveInBedrock ==
  /\ Cardinality(InBedrock) <= 5
  /\ bedrock_semaphore = 5 - Cardinality(InBedrock)

\* Five calls are in progress, one of them in its last attempt, no permit is
\* free and a sixth caller waits for one.
C12_Witness ==
  /\ Cardinality(InBedrock) = 5
  /\ bedrock_semaphore = 0
  /\ \E c \in DOMAIN pc : pc[c] = "bedrock_wait"
  /\ \E c \in DOMAIN pc : pc[c] = "bedrock_call" /\ invokeCalls[c] = 3

\* The URLs for which the call op has been made, and those for which it is
\* to be made in the run.
StatsMade(op) ==
  {u \in DOMAIN stats_calls : stats_calls[u].op = op /\ stats_calls[u].made}
StatsPlanned(op) == {u \in DOMAIN stats_calls : stats_calls[u].op = op}

\* C13: for M add_success calls and K add_failure calls on one
\* ProcessingStats, all on different URLs and in any order, no update is
\* lost or duplicated: at every moment successful_urls holds each URL of a
\* success call made so far exactly once and the keys of failed_urls are the
\* URLs of the failure calls made so far, so that when all calls are made
\* success_count = M, failure_count = K and the keys are the K failing URLs.
C13_NoLostUpdate ==
  LET st == processing_stats[Url(1, 0)]
      success_count == Len(st.successful_urls)
      failure_count == Cardinality(DOMAIN st.failed_urls)
  IN /\ Range(st.successful_urls) = StatsMade("add_success")
     /\ success_count = Cardinality(StatsMade("add_success"))
     /\ DOMAIN st.failed_urls = StatsMade("add_failure")
     /\ (\A u \in DOMAIN stats_calls : stats_calls[u].made) =>
          /\ success_count = Cardinality(StatsPlanned("add_success"))
          /\ failure_count = Cardinality(StatsPlanned("add_failure"))
          /\ DOMAIN st.failed_urls = StatsPlanned("add_failure")

\* All calls are made: two successes and two failures.
C13_Witness ==
  /\ \A u \in DOMAIN stats_calls : stats_calls[u].made
  /\ Cardinality(StatsPlanned("add_success")) = 2
  /\ Cardinality(StatsPlanned("add_failure")) = 2
  /\ Len(processing_stats[Url(1, 0)].successful_urls) = 2

\* The sum of the weights of a set of checks.
RECURSIVE SumWeights(_)
SumWeights(S) ==
  IF S = {} THEN 0
  ELSE LET i == CHOOSE x \in S : TRUE
       IN Checks[i].weight + SumWeights(S \ {i})

\* detect_swagger_page has returned a scored result for the page.
Detected == scraper_pc \notin {"idle", "start", "parse"} /\ detection.has_confidence

\* No candidate spec URL of the page could be fetched and validated.
NoSpecReachable ==
  \A i \in 1..Len(fetched) : fetched[i].outcome # "valid"

\* C14: for a page that triggers none of the detection checks (HTML and URL
\* path checks alike) and has no spec URL that can be fetched, the detection
\* reports is_swagger = false and enhanced_extract reports a page that is
\* not a Swagger page, with no endpoint model.
C14_PlainPageIsStandard ==
  (scraper_pc = "done" /\ Detected /\ page.hit = {} /\ NoSpecReachable) =>
    /\ ~detection.is_swagger
    /\ ~extraction.is_swagger
    /\ ~extraction.has_api_data

\* C15: for every page, is_swagger is (sum of the triggered weights > 0.3
\* or spec_urls not empty), and extraction_method is openapi_spec when
\* spec_urls is not empty, else html_scraping when is_swagger, else
\* standard_scraping; so openapi_spec comes only with candidates, and a page
\* with no indicator but a candidate is classified as API documentation.
C15_ClassificationRule ==
  Detected =>
    LET sum == SumWeights(page.hit)
        has_candidates == detection.spec_urls # <<>>
    IN /\ detection.is_swagger <=> (sum > 30 \/ has_candidates)
       /\ detection.extraction_method =
            IF has_candidates THEN "openapi_spec"
            ELSE IF detection.is_swagger THEN "html_scraping"
            ELSE "standard_scraping"
       /\ detection.extraction_method = "openapi_spec" => has_candidates
       /\ (detection.indicators = <<>> /\ has_candidates) =>
            detection.is_swagger

\* A page with no indicator is classified as API documentation because of
\* its synthesized candidates.
C15_Witness ==
  /\ Detected
  /\ detection.indicators = <<>>
  /\ page.matches = <<>>
  /\ detection.is_swagger
  /\ detection.extraction_method = "openapi_spec"

\* C16: the candidates are requested strictly in list order; the first one
\* that validates wins and nothing is requested after it; one that fails to
\* fetch, is not a 200 or does not validate is skipped; and when none
\* validates, enhanced_extract runs the HTML fallback and reports
\* html_scraping.
C16_FirstValidCandidateWins ==
  scraper_pc \in {"resolving", "fallback", "done"} =>
    /\ Len(fetched) <= Len(detection.spec_urls)
    /\ \A i \in 1..Len(fetched) :
         /\ fetched[i].url = detection.spec_urls[i]
         /\ fetched[i].outcome = "valid" =>
              /\ i = Len(fetched)
              /\ scraper_pc = "done"
              /\ extraction.success => extraction.spec_source = fetched[i].url
    /\ (scraper_pc = "done" /\ extraction.extraction_method = "openapi_spec")
         => fetched[Len(fetched)].outcome = "valid"
    /\ (scraper_pc \in {"fallback", "done"} /\ Detected /\ NoSpecReachable
         /\ detection.is_swagger)
         => Len(fetched) = Len(detection.spec_urls)
    /\ (scraper_pc = "done" /\ Detected /\ NoSpecReachable
         /\ detection.is_swagger)
         => /\ extraction.success
            /\ extraction.extraction_method = "html_scraping"

\* The third candidate won after two were skipped, and candidates after it
\* were never requested.
C16_Witness ==
  /\ scraper_pc = "done"
  /\ Len(fetched) = 3
  /\ fetched[1].outcome = "non200"
  /\ fetched[3].outcome = "valid"
  /\ Len(detection.spec_urls) > 3
  /\ extraction.extraction_method = "openapi_spec"

\* The (path, key) pairs of the document whose key satisfies Test.
KeyPairs(doc, Test(_)) ==
  {<<i, j>> \in (1..Len(doc.paths)) \X (1..MaxKeys + 1) :
     j <= Len(doc.paths[i].keys) /\ Test(doc.paths[i].keys[j])}

\* parse_openapi_spec has returned for a document it can read.
Parsed == scraper_pc = "done" /\ spec_data.wellformed /\ fetched = <<>>
          /\ ~detection.has_confidence

\* C17 as stated: total_endpoints is the length of endpoints and the number
\* of (path, key) pairs whose key is one of get, post, put, delete, patch,
\* options, head.
C17_CountsListedKeys ==
  Parsed =>
    /\ api_data.total_endpoints = Len(api_data.endpoints)
    /\ api_data.total_endpoints =
         Cardinality(KeyPairs(spec_data, LAMBDA k : k \in HttpMethods))

\* C17: total_endpoints is the length of endpoints and the number of (path,
\* key) pairs whose key, put in lower case, is one of get, post, put, delete,
\* patch, options, head; any other key (a path-level 'parameters' entry)
\* produces no endpoint.
C17_CountsKeysInAnyCase ==
  Parsed =>
    /\ api_data.total_endpoints = Len(api_data.endpoints)
    /\ api_data.total_endpoints =
         Cardinality(KeyPairs(spec_data, LAMBDA k : Lower(k) \in HttpMethods))
    /\ \A e \in Range(api_data.endpoints) :
         e.method \notin {"PARAMETERS", "X-INTERNAL"}

\* A document with keys GET and parameters under one path and get under
\* another has given two endpoints.
C17_Witness ==
  /\ Parsed
  /\ Len(spec_data.paths) = 2
  /\ spec_data.paths[1].keys = <<"GET", "parameters">>
  /\ spec_data.paths[2].keys = <<"get">>
  /\ api_data.total_endpoints = 2

\* C18: the confidence detect_swagger_page returns is min(1.0, sum of the
\* weights of the checks that triggered), so it is within [0, 1]; a check
\* that raises adds nothing.
C18_ConfidenceIsClampedSum ==
  Detected =>
    LET sum == SumWeights(page.hit)
    IN /\ detection.confidence = IF sum <= 100 THEN sum ELSE 100
       /\ detection.confidence >= 0
       /\ detection.confidence <= 100
       /\ Len(detection.indicators) = Cardinality(page.hit)

\* A page on which one check raised and two were true with weights summing
\* to more than 1.0 got confidence 1.0.
C18_Witness ==
  /\ Detected
  /\ page.raising # {}
  /\ SumWeights(page.hit) > 100
  /\ detection.confidence = 100

\* The insertions detect_swagger_page attempts, in order: the references
\* scanned from the HTML, then the candidates synthesized from the page URL.
ScannedCandidates ==
  [i \in 1..Len(page.matches) |-> urljoin(page, page.matches[i])]
SynthesizedCandidates == BasePatterns \o PathPatterns(page)
FirstIndex(q, x) ==
  CHOOSE i \in 1..Len(q) : q[i] = x /\ \A k \in 1..(i - 1) : q[k] # x

\* C19: spec_urls never holds a URL twice, keeps the order of first
\* insertion, and has every candidate scanned from the HTML before every
\* candidate synthesized from the page URL.
C19_CandidatesDistinctAndOrdered ==
  Detected =>
    LET spec_urls == detection.spec_urls
        inserted == ScannedCandidates \o SynthesizedCandidates
    IN /\ Range(spec_urls) = Range(inserted)
       /\ \A i, j \in 1..Len(spec_urls) :
            /\ spec_urls[i] = spec_urls[j] => i = j
            /\ i < j => FirstIndex(inserted, spec_urls[i])
                          < FirstIndex(inserted, spec_urls[j])
            /\ ( /\ spec_urls[i] \notin Range(ScannedCandidates)
                 /\ spec_urls[j] \in Range(ScannedCandidates) ) => j < i

\* Two references of the HTML name the same URL, which is also one of the
\* synthesized candidates, and a second scanned URL follows it.
C19_Witness ==
  /\ Detected
  /\ Len(page.matches) = 2
  /\ Len(detection.spec_urls) < Len(ScannedCandidates \o SynthesizedCandidates)
  /\ detection.spec_urls[1] \in Range(SynthesizedCandidates)
  /\ detection.spec_urls[2] \in Range(ScannedCandidates)

Finalized == mainpc = "finalized"

DiscoveredFor(b) ==
  {all_crawled_urls[k].url :
     k \in {j \in 1..Len(all_crawled_urls) : all_crawled_urls[j].base_url = b}}

C22_FailedKeysAreDiscovered ==
  \A b \in DOMAIN processing_stats : Failed(b) \subseteq DiscoveredFor(b)

\* Two base URLs, each with a failure recorded for a URL of its own.
C22_Witness ==
  /\ Len(urls) = 2
  /\ \A b \in DOMAIN processing_stats : Failed(b) # {}

\* C23: a pass of the crawl loop whose deep crawl fails appends the seed URL
\* itself as the only URL discovered for that source and sets its
\* total_urls_discovered to 1, and when the workers are created there is
\* exactly one per entry of the discovered list, so exactly one for that seed.
C23_FailedCrawlYieldsSeedOnly ==
  [][\A n \in 1..MaxPages :
       Crawl(n, TRUE) =>
         LET seed == urls[crawl_idx]
         IN /\ all_crawled_urls' =
                 Append(all_crawled_urls, [url |-> seed, base_url |-> seed])
            /\ processing_stats'[seed].total_urls_discovered = 1
            /\ mainpc' = "process" =>
                 \A w \in Workers :
                    pc'[w] = "pending" <=> w <= Len(all_crawled_urls')]_vars

\* The crawl of the only seed URL has failed and its one worker is created.
C23_Witness ==
  /\ mainpc = "process"
  /\ Len(urls) = 1
  /\ all_crawled_urls = <<[url |-> urls[1], base_url |-> urls[1]]>>
  /\ processing_stats[urls[1]].total_urls_discovered = 1
  /\ pc[1] = "pending"
  /\ \A w \in Workers \ {1} : pc[w] = "none"

\* C24: _enhance_endpoints_with_html_examples leaves the examples of an
\* endpoint that already has an example unchanged, and gives an endpoint
\* without examples only mined records: at most 3 of type "html_extracted"
\* and at most 2 of type "code_example".
CountType(list, type) ==
  Cardinality({k \in 1..Len(list) : list[k].type = type})

C24_OnlyBareEndpointsEnriched ==
  [][Enhance =>
       /\ Len(endpoint_list') = Len(endpoint_list)
       /\ \A k \in 1..Len(endpoint_list) :
            LET before == endpoint_list[k].examples
                after == endpoint_list'[k].examples
            IN IF before # <<>>
               THEN after = before
               ELSE /\ CountType(after, "html_extracted") <= 3
                    /\ CountType(after, "code_example") <= 2
                    /\ Len(after) = CountType(after, "html_extracted")
                                      + CountType(after, "code_example")]_vars

\* C25: for a page whose path ends in /api.html, /docs or /docs/ the
\* candidate list holds the path with that suffix replaced by /swagger.json
\* and the path with it replaced by /openapi.json; for any other path with a
\* "/" it holds the directory of the page followed by /swagger.json.
C25_SuffixCandidates ==
  Detected =>
    LET candidates == Range(detection.spec_urls)
    IN /\ page.leaf \in {"api.html", "docs", "docs/"} =>
            /\ <<page.dir, "swagger.json">> \in candidates
            /\ <<page.dir, "openapi.json">> \in candidates
       /\ page.leaf \in {"", "page"} =>
            <<page.dir, "swagger.json">> \in candidates

\* C26: the stages of a worker are sequential in every pass.  A detection
\* is run only by the step in which a content fetch returns, and not while a
\* fetch of the worker is under way; inside it, spec resolution and the HTML
\* fallback run only after detect_swagger_page has given its result, the
\* fallback only after every candidate was tried; and a transformation call
\* is made only after the detection step of the same pass has given its
\* result, successful or not.
InFetch(w) == pc[w] \in {"jina_sleep", "jina_call"}

InTransform(w) == pc[w] \in {"bedrock_wait", "bedrock_call", "bedrock_sleep"}

C26_StagesSequential ==
  /\ [](\A w \in Workers :
          /\ detectCalls[w] + (IF InFetch(w) THEN 1 ELSE 0) <= jinaCalls[w]
          /\ InTransform(w) =>
               /\ swagger_result[w] \in DetectOutcomes
               /\ detectCalls[w] >= 1
               /\ jinaCalls[w] = attempt[w] + 1
          /\ invokeCalls[w] <= bedrock_max_retries * detectCalls[w])
  /\ [](/\ scraper_pc \in {"resolving", "fallback"} =>
            detection.has_confidence /\ detection.is_swagger
        /\ (fetched # <<>> \/ extraction.has_api_data) =>
            detection.has_confidence /\ detection.is_swagger
        /\ scraper_pc = "fallback" => Len(fetched) = Len(detection.spec_urls))
  /\ [][\A w \in Workers :
          /\ detectCalls'[w] # detectCalls[w] =>
               pc[w] = "jina_call" /\ detectCalls'[w] = detectCalls[w] + 1
          /\ (InTransform(w)' /\ ~InTransform(w)) =>
               pc[w] = "jina_call" /\ detectCalls'[w] = detectCalls[w] + 1]_vars

\* A worker is in the transformation call of its second pass, after the
\* second fetch and the second detection.
C26_Witness ==
  \E w \in Workers :
    /\ pc[w] = "bedrock_call"
    /\ attempt[w] = 1
    /\ jinaCalls[w] = 2
    /\ detectCalls[w] = 2
    /\ invokeCalls[w] = bedrock_max_retries + 1

\* C27: at every moment at most 20 calls are inside
\* extract_content_via_jina_rate_limited, sleeping for the rate limit or
\* making the request, and the count of free permits of jina_semaphore is 20
\* less the calls inside: every exit, by return or by any exception, has
\* given its permit back.
InsideRateLimited == {c \in DOMAIN pc : pc[c] \in {"jina_sleep", "jina_call"}}

C27_AtMostTwentyInside ==
  /\ Cardinality(InsideRateLimited) <= JinaPermits
  /\ jina_semaphore = JinaPermits - Cardinality(InsideRateLimited)

\* 20 calls are inside, one of them asleep for the rate limit with the
\* permit an earlier call has given back.
C27_Witness ==
  /\ jina_semaphore = 0
  /\ \E c \in InsideRateLimited : pc[c] = "jina_sleep"
  /\ \E c \in DOMAIN pc : pc[c] = "done"

C29_BedrockCallBounded ==
  /\ [](\A w \in Workers :
          /\ battempt[w] <= bedrock_max_retries - 1
          /\ invokeCalls[w] <= bedrock_max_retries * detectCalls[w]
          /\ pc[w] = "bedrock_sleep" => battempt[w] < bedrock_max_retries - 1
          /\ ~bedrock_client => invokeCalls[w] = 0 /\ ~InTransform(w))
  /\ [][\A w \in Workers :
          (pc[w] = "bedrock_call" /\ pc'[w] # "bedrock_call") =>
             \/ pc'[w] = "bedrock_sleep" /\ invokeCalls'[w] = invokeCalls[w]
             \/ pc'[w] = "done" /\ ret'[w] = "result"
             \/ /\ battempt[w] = bedrock_max_retries - 1
                /\ \/ pc'[w] = "pending" /\ attempt'[w] = attempt[w] + 1
                   \/ /\ pc'[w] = "done" /\ ret'[w] = "None"
                      /\ UrlOf(w) \in Failed(BaseOf(w))'
                      /\ processing_stats'[BaseOf(w)].failed_urls[UrlOf(w)]
                           = "bedrock_error"]_vars

\* Every one of the 3 attempts of each of the 3 calls of a worker failed.
C29_Witness ==
  \E w \in Tasks :
    /\ pc[w] = "done"
    /\ ret[w] = "None"
    /\ invokeCalls[w] = bedrock_max_retries * (max_retries + 1)

\* C30: the shared window loses no admission under interleaving.  No step
\* removes from jina_rate_limiter an admission made less than 60 seconds
\* before; the step that admits a call appends the current time; the list is
\* always in non-decreasing order of time, so the first element, from which
\* the sleep time is computed, is the oldest admission in it.
CountOf(list, t) == Cardinality({k \in 1..Len(list) : list[k] = t})

C30_WindowKeepsAdmissions ==
  /\ [](\A i, j \in 1..Len(jina_rate_limiter) :
          i <= j => jina_rate_limiter[i] <= jina_rate_limiter[j])
  /\ [][/\ \A t \in Range(jina_rate_limiter) :
            now' - t < RateWindow =>
              CountOf(jina_rate_limiter', t) >= CountOf(jina_rate_limiter, t)
        /\ \A w \in Workers :
            /\ (pc'[w] = "jina_call" /\ pc[w] # "jina_call") =>
                 CountOf(jina_rate_limiter', now)
                   = CountOf(jina_rate_limiter, now) + 1
            /\ (pc'[w] = "jina_sleep" /\ pc[w] # "jina_sleep") =>
                 /\ wake'[w] = jina_rate_limiter'[1] + RateWindow
                 /\ \A k \in 1..Len(jina_rate_limiter') :
                      jina_rate_limiter'[1] <= jina_rate_limiter'[k]]_vars

\* Both workers are making a request while the window is full, and its
\* oldest admission was made after the clock had advanced.
C30_Witness ==
  /\ \A w \in Workers : pc[w] = "jina_call"
  /\ Len(jina_rate_limiter) >= RateLimit
  /\ jina_rate_limiter[1] > 0

====
